---------------------------- MODULE Spec2Model ----------------------------
(***************************************************************************)
(* A model of pyup/requirements.py: RequirementsBundle, RequirementFile    *)
(* and Requirement.                                                        *)
(*                                                                         *)
(* Text is modelled character by character: a Python str is a sequence of  *)
(* one-character strings, so  "p==1 # c"  is                               *)
(*   <<"p","=","=","1"," ","#"," ","c">>.                                  *)
(* The str methods the code calls (split, strip, startswith, in, replace,  *)
(* join, splitlines) are operators over such sequences.                    *)
(***************************************************************************)
EXTENDS Integers, Sequences, FiniteSets, TLC

VARIABLES
    bundle,   \* RequirementsBundle: the list of RequirementFile objects
    req,      \* a Requirement object whose properties are read directly
    package,  \* the catalog entry fetch_package returns: [versions |-> ...]
    input,    \* the arguments of a pure function under check
    call,     \* the last operation invoked, with its arguments
    result    \* what that operation returned (or the exception it raised)

vars == <<bundle, req, package, input, call, result>>

(***************************************************************************)
(* Python values.  TLC compares only values of one kind, so None is        *)
(* written in the kind of the slot that holds it.                          *)
(***************************************************************************)

\* None in a slot that otherwise holds a str (a version, an index server)
None == <<"None">>

\* None in a slot that otherwise holds an object (pull_request, _package)
NoneObj == [none |-> TRUE]

\* _requirements = None: not parsed yet
NoneReqs == <<NoneObj>>

\* _other_files = None: not parsed yet
NoneFiles == <<None>>

\* A bool-or-None slot (_is_valid, the prereleases argument) holds one of
\* "None", "True", "False".
PyBool(b) == IF b THEN "True" ELSE "False"

\* The outcome of an operation: the value it returns, or the exception that
\* leaves it.
Return(v) == [value |-> v]

Raised(exc) == [raised |-> exc]

\* The value of a variable a specification does not use.
Unused == "unused"

\* A local name: Body with v bound to its argument
With(v, Body(_)) == Body(v)

(***************************************************************************)
(* Python str methods                                                      *)
(***************************************************************************)

\* s[i:]  (1-based i)
From(s, i) == SubSeq(s, i, Len(s))

\* s.startswith(p)
StartsWith(s, p) == Len(p) <= Len(s) /\ SubSeq(s, 1, Len(p)) = p

\* s.endswith(p)
EndsWith(s, p) == Len(p) <= Len(s) /\ SubSeq(s, Len(s) - Len(p) + 1, Len(s)) = p

\* sub occurs in s at position i
OccursAt(sub, s, i) ==
    /\ i >= 1
    /\ i + Len(sub) - 1 <= Len(s)
    /\ SubSeq(s, i, i + Len(sub) - 1) = sub

\* sub in s
Contains(sub, s) == \E i \in 1..(Len(s) - Len(sub) + 1) : OccursAt(sub, s, i)

\* s.find(sub), 1-based; 0 when sub does not occur
Find(sub, s) ==
    IF Contains(sub, s)
    THEN CHOOSE i \in 1..(Len(s) - Len(sub) + 1) :
            /\ OccursAt(sub, s, i)
            /\ \A j \in 1..(i - 1) : ~OccursAt(sub, s, j)
    ELSE 0

\* s.split(sep): every occurrence of sep cuts, empty pieces are kept
RECURSIVE Split(_, _)
Split(s, sep) ==
    With(Find(sep, s), LAMBDA i :
        IF i = 0
        THEN <<s>>
        ELSE <<SubSeq(s, 1, i - 1)>> \o Split(From(s, i + Len(sep)), sep))

\* sep.join(parts)
RECURSIVE Join(_, _)
Join(sep, parts) ==
    IF parts = <<>> THEN <<>>
    ELSE IF Len(parts) = 1 THEN parts[1]
    ELSE parts[1] \o sep \o Join(sep, Tail(parts))

\* s.replace(old, new)
Replace(s, old, new) == Join(new, Split(s, old))

\* what str.strip() removes
Whitespace == {" ", "\t", "\n", "\r"}

RECURSIVE LStrip(_)
LStrip(s) ==
    IF s # <<>> /\ s[1] \in Whitespace THEN LStrip(Tail(s)) ELSE s

RECURSIVE RStrip(_)
RStrip(s) ==
    IF s # <<>> /\ s[Len(s)] \in Whitespace
    THEN RStrip(SubSeq(s, 1, Len(s) - 1))
    ELSE s

\* s.strip()
Strip(s) == LStrip(RStrip(s))

\* s.splitlines(): lines end at \n, \r\n or \r; no empty last line
RECURSIVE SplitLines(_)
SplitLines(s) ==
    IF s = <<>> THEN <<>>
    ELSE IF \E i \in 1..Len(s) : s[i] \in {"\n", "\r"}
    THEN With(CHOOSE k \in 1..Len(s) :
                  /\ s[k] \in {"\n", "\r"}
                  /\ \A j \in 1..(k - 1) : s[j] \notin {"\n", "\r"},
         LAMBDA i :
         With(IF s[i] = "\r" /\ i < Len(s) /\ s[i + 1] = "\n" THEN 2 ELSE 1,
         LAMBDA w :
             <<SubSeq(s, 1, i - 1)>> \o SplitLines(From(s, i + w))))
    ELSE <<s>>

(***************************************************************************)
(* pkg_resources.parse_version and packaging's SpecifierSet, for version   *)
(* strings of the form  N, N.M, Nb, N.Mb  (one digit per segment, b marks  *)
(* a pre-release).                                                         *)
(***************************************************************************)

DigitVal(c) ==
    CASE c = "0" -> 0
      [] c = "1" -> 1
      [] c = "2" -> 2
      [] c = "3" -> 3
      [] c = "4" -> 4
      [] OTHER   -> 5

\* parse_version(s): the release segments (zero padded, so that 1 and 1.0
\* are the same version) and whether s is a pre-release.
ParseVersion(s) ==
    With(s # <<>> /\ s[Len(s)] = "b", LAMBDA pre :
    With(Split(IF pre THEN SubSeq(s, 1, Len(s) - 1) ELSE s, <<".">>), LAMBDA segs :
        [release       |-> <<DigitVal(segs[1][1]),
                             IF Len(segs) >= 2 THEN DigitVal(segs[2][1]) ELSE 0>>,
         is_prerelease |-> pre]))

\* Version.__lt__: by release, a pre-release before its release.
VersionLess(a, b) ==
    \/ a.release[1] < b.release[1]
    \/ a.release[1] = b.release[1] /\ a.release[2] < b.release[2]
    \/ a.release = b.release /\ a.is_prerelease /\ ~b.is_prerelease

\* Version.__eq__
VersionEq(a, b) == a.release = b.release /\ a.is_prerelease = b.is_prerelease

OpEq      == <<"=", "=">>
OpNe      == <<"!", "=">>
OpLe      == <<"<", "=">>
OpGe      == <<">", "=">>
OpCompat  == <<"~", "=">>
OpLt      == <<"<">>
OpGt      == <<">">>

\* Specifier(text): the operator and the version of one clause.
ParseSpecifier(text) ==
    IF Len(text) >= 2 /\ SubSeq(text, 1, 2) \in {OpEq, OpNe, OpLe, OpGe, OpCompat}
    THEN [operator |-> SubSeq(text, 1, 2), version |-> Strip(From(text, 3))]
    ELSE [operator |-> SubSeq(text, 1, 1), version |-> Strip(From(text, 2))]

\* SpecifierSet(text): the clauses between the commas, empty ones dropped.
SpecifierSet(text) ==
    With(SelectSeq(Split(text, <<",">>), LAMBDA p : Strip(p) # <<>>), LAMBDA parts :
        [i \in 1..Len(parts) |-> ParseSpecifier(Strip(parts[i]))])

\* Specifier.prereleases: the clause itself names a pre-release with an
\* operator that can select it.
SpecifierPrereleases(sp) ==
    /\ sp.operator \in {OpEq, OpGe, OpLe, OpCompat}
    /\ ParseVersion(sp.version).is_prerelease

\* SpecifierSet.prereleases when no value was forced: none (falsy) for the
\* empty set, otherwise whether any clause names a pre-release.
SpecifierSetPrereleases(set) ==
    \E i \in 1..Len(set) : SpecifierPrereleases(set[i])

\* Specifier._compare_*: one clause against a parsed version.
SpecifierCompare(sp, item) ==
    With(ParseVersion(sp.version), LAMBDA v :
        CASE sp.operator = OpEq -> VersionEq(item, v)
          [] sp.operator = OpNe -> ~VersionEq(item, v)
          [] sp.operator = OpLe -> VersionLess(item, v) \/ VersionEq(item, v)
          [] sp.operator = OpGe -> VersionLess(v, item) \/ VersionEq(item, v)
          [] sp.operator = OpLt ->
                /\ VersionLess(item, v)
                /\ ~(~v.is_prerelease /\ item.is_prerelease /\ item.release = v.release)
          [] sp.operator = OpGt -> VersionLess(v, item)
          [] sp.operator = OpCompat ->
                /\ VersionLess(v, item) \/ VersionEq(item, v)
                /\ item.release[1] = v.release[1]
          [] OTHER -> FALSE)

\* Specifier.contains(item, prereleases)
SpecifierContains(sp, item, prereleases) ==
    IF item.is_prerelease /\ ~prereleases
    THEN FALSE
    ELSE SpecifierCompare(sp, item)

\* SpecifierSet.contains(version, prereleases), prereleases one of "None",
\* "True", "False"
SpecifierSetContains(set, version, prereleases) ==
    With(ParseVersion(version), LAMBDA item :
    With(IF prereleases = "None"
         THEN SpecifierSetPrereleases(set)
         ELSE prereleases = "True",
    LAMBDA pre :
        IF ~pre /\ item.is_prerelease
        THEN FALSE
        ELSE \A i \in 1..Len(set) : SpecifierContains(set[i], item, pre)))

\* sorted(candidates, key=parse_version, reverse=True): stable, so that of
\* two equal versions the one that came first stays first.
RECURSIVE InsertDesc(_, _)
InsertDesc(v, sorted) ==
    IF sorted = <<>> THEN <<v>>
    ELSE IF VersionLess(ParseVersion(sorted[1]), ParseVersion(v))
    THEN <<v>> \o sorted
    ELSE <<sorted[1]>> \o InsertDesc(v, Tail(sorted))

RECURSIVE SortedDesc(_)
SortedDesc(vs) ==
    IF vs = <<>> THEN <<>>
    ELSE InsertDesc(vs[Len(vs)], SortedDesc(SubSeq(vs, 1, Len(vs) - 1)))

\* get_latest_version_within_specs without the sort: the first candidate
\* the spec set contains.
get_latest_version_unsorted(specs, versions, prereleases) ==
    With(SpecifierSet(Join(<<",">>,
             [i \in 1..Len(specs) |-> specs[i][1] \o specs[i][2]])),
    LAMBDA spec_set :
    With(SelectSeq(versions,
             LAMBDA v : SpecifierSetContains(spec_set, v, prereleases)),
    LAMBDA candidates :
        IF Len(candidates) > 0 THEN candidates[1] ELSE None))

\* Requirement.get_latest_version_within_specs(specs, versions, prereleases)
\* specs: a list of (operator, version) pairs
get_latest_version_within_specs(specs, versions, prereleases) ==
    With(SpecifierSet(Join(<<",">>,
             [i \in 1..Len(specs) |-> specs[i][1] \o specs[i][2]])),
    LAMBDA spec_set :
    With(SortedDesc(SelectSeq(versions,
             LAMBDA v : SpecifierSetContains(spec_set, v, prereleases))),
    LAMBDA candidates :
        IF Len(candidates) > 0 THEN candidates[1] ELSE None))

(***************************************************************************)
(* pkg_resources.parse_requirements on one line of text                    *)
(***************************************************************************)

Letters ==
    {"a", "b", "c", "d", "e", "f", "g", "h", "i", "j", "k", "l", "m",
     "n", "o", "p", "q", "r", "s", "t", "u", "v", "w", "x", "y", "z"}

Digits == {"0", "1", "2", "3", "4", "5", "6", "7", "8", "9"}

\* What a project name is made of, and what a version is made of
NameChars == Letters \cup Digits \cup {"-", "_", "."}

VersionChars == Letters \cup Digits \cup {".", "*", "+", "!", "-", "_"}

\* The length of the longest prefix of s made of characters of set
RECURSIVE PrefixLen(_, _)
PrefixLen(s, set) ==
    IF s # <<>> /\ s[1] \in set THEN 1 + PrefixLen(Tail(s), set) ELSE 0

\* One clause of the requirement's version specifier: an operator and a
\* version, with optional blanks around them.
IsClause(text) ==
    With(ParseSpecifier(text), LAMBDA sp :
        /\ text # <<>>
        /\ sp.operator \in {OpEq, OpNe, OpLe, OpGe, OpCompat, OpLt, OpGt}
        /\ sp.version # <<>>
        /\ PrefixLen(sp.version, VersionChars) = Len(sp.version))

\* parsed, = parse_requirements(s): the one requirement the line declares,
\* as (project_name, specs); ValueError when the line declares none (blank,
\* a comment) or does not parse.  A comment is dropped from " #" on.
parse_requirements(s) ==
    With(Strip(s), LAMBDA line :
    With(Find(<<" ", "#">>, line), LAMBDA hash :
    With(Strip(IF hash > 0 THEN SubSeq(line, 1, hash - 1) ELSE line), LAMBDA decl :
    With(PrefixLen(decl, NameChars), LAMBDA n :
    With(Strip(From(decl, n + 1)), LAMBDA rest :
    With(IF rest = <<>> THEN <<>> ELSE Split(rest, <<",">>), LAMBDA clauses :
        IF \/ line = <<>>
           \/ line[1] = "#"
           \/ n = 0
           \/ decl[1] \notin Letters \cup Digits
           \/ decl[n] \notin Letters \cup Digits
           \/ \E i \in 1..Len(clauses) : ~IsClause(Strip(clauses[i]))
        THEN Raised("ValueError")
        ELSE Return([project_name |-> SubSeq(decl, 1, n),
                     specs |-> [i \in 1..Len(clauses) |->
                                  With(ParseSpecifier(Strip(clauses[i])),
                                       LAMBDA sp : <<sp.operator, sp.version>>)]])))))))

(***************************************************************************)
(* Requirement                                                             *)
(***************************************************************************)

\* Requirement.__init__.  id stands for the identity of the object; key and
\* hashCmp, which no operation of this module reads, are left out.
Requirement(id, name, specs, line, lineno, index_server) ==
    [id               |-> id,
     name             |-> name,
     specs            |-> specs,
     line             |-> line,
     lineno           |-> lineno,
     index_server     |-> index_server,
     pull_request     |-> NoneObj,
     _fetched_package |-> FALSE,
     _package         |-> NoneObj]

\* Requirement.parse(s, lineno, index_server): the new Requirement, or the
\* ValueError of parse_requirements
parse(id, s, lineno, index_server) ==
    With(IF Contains(<<"\t", "#">>, s)
         THEN parse_requirements(Replace(s, <<"\t", "#">>, <<"\t", " ", "#">>))
         ELSE parse_requirements(s),
    LAMBDA parsed :
        IF parsed = Raised("ValueError")
        THEN parsed
        ELSE Return(Requirement(id, parsed.value.project_name, parsed.value.specs,
                                s, lineno, index_server)))

is_pinned(r) == Len(r.specs) = 1 /\ r.specs[1][1] = OpEq

is_ranged(r) == Len(r.specs) >= 1 /\ ~is_pinned(r)

is_loose(r) == Len(r.specs) = 0

\* "rq.filter:" and "pyup:"
RqFilterMarker == <<"r", "q", ".", "f", "i", "l", "t", "e", "r", ":">>

PyupMarker == <<"p", "y", "u", "p", ":">>

\* Requirement.filter: the specs of the inline filter; << >> stands for the
\* False the property returns when there is none (the code only tests it
\* for truth).
filter(r) ==
    With(IF Contains(RqFilterMarker, r.line)
         THEN Split(Strip(Split(r.line, RqFilterMarker)[2]), <<" ">>)[1]
         ELSE IF Contains(PyupMarker, r.line)
         THEN Split(Strip(Split(r.line, PyupMarker)[2]), <<" ">>)[1]
         ELSE <<>>,
    LAMBDA rqfilter :
    With(parse_requirements(<<"f", "i", "l", "t", "e", "r", " ">> \o rqfilter),
    LAMBDA parsed :
        IF rqfilter # <<>> /\ parsed # Raised("ValueError")
        THEN parsed.value.specs
        ELSE <<>>))

\* Requirement.package: fetch_package(name, index_server) on the first read,
\* the cached entry afterwards.  catalog is what fetch_package returns.
fetch(r, catalog) ==
    IF ~r._fetched_package
    THEN [r EXCEPT !._package = catalog, !._fetched_package = TRUE]
    ELSE r

\* Requirement.prereleases
prereleases(r) == is_pinned(r) /\ ParseVersion(r.specs[1][2]).is_prerelease

\* Package.latest_version(prereleases): the highest version of the entry,
\* pre-releases counted only when asked for; None when there is none.
latest_version_of(pkg, pre) ==
    With(SortedDesc(SelectSeq(pkg.versions,
             LAMBDA v : pre \/ ~ParseVersion(v).is_prerelease)),
    LAMBDA ok :
        IF ok = <<>> THEN None ELSE ok[1])

\* Each property below yields [req |-> the object after the read,
\* out |-> Return(value) or Raised(exception)].

\* Requirement.version.  "specs += self.filter" extends the list self.specs
\* itself.
version(r, catalog) ==
    IF is_pinned(r)
    THEN [req |-> r, out |-> Return(r.specs[1][2])]
    ELSE With(filter(r), LAMBDA f :
         With(IF f # <<>> THEN [r EXCEPT !.specs = @ \o f] ELSE r, LAMBDA r1 :
         With(fetch(r1, catalog), LAMBDA r2 :
             [req |-> r2,
              out |-> Return(get_latest_version_within_specs(
                          r1.specs, r2._package.versions, PyBool(prereleases(r2))))])))

\* Requirement.latest_version
latest_version(r, catalog) ==
    With(fetch(r, catalog), LAMBDA r1 :
        [req |-> r1, out |-> Return(latest_version_of(r1._package, prereleases(r1)))])

\* Requirement.latest_version_within_specs
latest_version_within_specs(r, catalog) ==
    With(filter(r), LAMBDA f :
        IF f # <<>>
        THEN With(fetch(r, catalog), LAMBDA r1 :
                 [req |-> r1,
                  out |-> Return(get_latest_version_within_specs(
                              f, r1._package.versions, PyBool(prereleases(r1))))])
        ELSE latest_version(r, catalog))

\* Requirement.is_outdated.  parse_version(None) raises TypeError.
is_outdated(r, catalog) ==
    With(version(r, catalog), LAMBDA v :
    With(latest_version_within_specs(v.req, catalog), LAMBDA l :
        IF v.out.value = None
        THEN [req |-> v.req, out |-> Raised("TypeError")]
        ELSE IF l.out.value = None
        THEN [req |-> l.req, out |-> Raised("TypeError")]
        ELSE [req |-> l.req,
              out |-> Return(VersionLess(ParseVersion(v.out.value),
                                         ParseVersion(l.out.value)))]))

\* Requirement.needs_update
needs_update(r, catalog) ==
    IF is_pinned(r) \/ is_ranged(r)
    THEN is_outdated(r, catalog)
    ELSE [req |-> r, out |-> Return(TRUE)]

\* "{}".format(v)
Format(v) == IF v = None THEN <<"N", "o", "n", "e">> ELSE v

\* re.sub(r"^<line>(?=\r?\n?$)", new_line, content, flags=re.MULTILINE):
\* line is matched literally, at the start of a physical line, and must be
\* followed by the end of the text, by \n, or by \r at the end or before \n.
MatchesAt(line, content, i) ==
    With(i + Len(line), LAMBDA j :
        /\ i = 1 \/ content[i - 1] = "\n"
        /\ OccursAt(line, content, i)
        /\ \/ j > Len(content)
           \/ content[j] = "\n"
           \/ /\ content[j] = "\r"
              /\ j + 1 > Len(content) \/ content[j + 1] = "\n")

RECURSIVE SubFrom(_, _, _, _)
SubFrom(line, new_line, content, i) ==
    IF i > Len(content) THEN <<>>
    ELSE IF line # <<>> /\ MatchesAt(line, content, i)
    THEN new_line \o SubFrom(line, new_line, content, i + Len(line))
    ELSE <<content[i]>> \o SubFrom(line, new_line, content, i + 1)

\* Requirement.update_content(content)
update_content(r, catalog, content) ==
    With(latest_version_within_specs(r, catalog), LAMBDA l :
    With(r.name \o OpEq \o Format(l.out.value) \o
             (IF Contains(<<"#">>, r.line)
              THEN <<" ", "#">> \o Join(<<"#">>, Tail(Split(r.line, <<"#">>)))
              ELSE <<>>),
    LAMBDA new_line :
        [req |-> l.req, out |-> Return(SubFrom(r.line, new_line, content, 1))]))

(***************************************************************************)
(* RequirementFile                                                         *)
(***************************************************************************)

\* RequirementFile.__init__.  _parse_calls counts the runs of _parse; the
\* code keeps no such counter.
RequirementFile(path, content) ==
    [path          |-> path,
     content       |-> content,
     sha           |-> None,
     _requirements |-> NoneReqs,
     _other_files  |-> NoneFiles,
     _is_valid     |-> "None",
     _parse_calls  |-> 0]

\* RequirementFile.parse_index_server(line): IndexError, when the text
\* before the # has no space, gives None.
parse_index_server(line) ==
    With(Split(Split(line, <<"#">>)[1], <<" ">>), LAMBDA parts :
        IF Len(parts) < 2 THEN None
        ELSE With(Strip(parts[2]), LAMBDA url :
                 IF EndsWith(url, <<"/">>) THEN url ELSE url \o <<"/">>))

\* RequirementFile.resolve_file(file_path, line)
resolve_file(file_path, line) ==
    With(Replace(Replace(line, <<"-", "r", " ">>, <<>>),
                 <<"-", "-", "r", "e", "q", "u", "i", "r", "e", "m", "e", "n", "t",
                   " ">>, <<>>),
    LAMBDA l1 :
    With(Split(file_path, <<"/">>), LAMBDA parts :
    With(IF Contains(<<" ", "#">>, l1) THEN Strip(Split(l1, <<"#">>)[1]) ELSE l1,
    LAMBDA l2 :
        IF Len(parts) = 1 THEN l2
        ELSE Join(<<"/">>, SubSeq(parts, 1, Len(parts) - 1)) \o <<"/">> \o l2)))

\* RequirementFile.iter_lines
iter_lines(f) == SplitLines(f.content)

\* "pyup: ignore file" and "pyup: ignore"
IgnoreFileMarker ==
    <<"p", "y", "u", "p", ":", " ", "i", "g", "n", "o", "r", "e", " ", "f", "i",
      "l", "e">>

IgnoreMarker == <<"p", "y", "u", "p", ":", " ", "i", "g", "n", "o", "r", "e">>

\* -i, --index-url, --extra-index-url
IndexFlags ==
    {<<"-", "i">>,
     <<"-", "-", "i", "n", "d", "e", "x", "-", "u", "r", "l">>,
     <<"-", "-", "e", "x", "t", "r", "a", "-", "i", "n", "d", "e", "x", "-", "u",
       "r", "l">>}

\* -r, --requirement
RequirementFlags ==
    {<<"-", "r">>,
     <<"-", "-", "r", "e", "q", "u", "i", "r", "e", "m", "e", "n", "t">>}

\* -f, --find-links, --no-index, --allow-external, --allow-unverified, -Z,
\* --always-unzip
SkippedFlags ==
    {<<"-", "f">>,
     <<"-", "-", "f", "i", "n", "d", "-", "l", "i", "n", "k", "s">>,
     <<"-", "-", "n", "o", "-", "i", "n", "d", "e", "x">>,
     <<"-", "-", "a", "l", "l", "o", "w", "-", "e", "x", "t", "e", "r", "n", "a",
       "l">>,
     <<"-", "-", "a", "l", "l", "o", "w", "-", "u", "n", "v", "e", "r", "i", "f",
       "i", "e", "d">>,
     <<"-", "Z">>,
     <<"-", "-", "a", "l", "w", "a", "y", "s", "-", "u", "n", "z", "i", "p">>}

StartsWithAny(line, flags) == \E flag \in flags : StartsWith(line, flag)

\* The loop of _parse from line number num (0-based) on, with the index
\* server in effect and the two lists as filled so far.  owner and gen
\* identify the Requirement objects this run creates; catalog is what
\* fetch_package returns.  Yields the three cached fields.
RECURSIVE ParseLoop(_, _, _, _, _, _, _, _, _)
ParseLoop(path, owner, gen, catalog, lines, num, index_server, reqs, others) ==
    IF num >= Len(lines)
    THEN [_requirements |-> reqs,
          _other_files  |-> others,
          _is_valid     |-> PyBool(Len(reqs) > 0 \/ Len(others) > 0)]
    ELSE
    With(Strip(lines[num + 1]), LAMBDA line :
    With(ParseLoop(path, owner, gen, catalog, lines, num + 1, index_server,
                   reqs, others),
    LAMBDA skip :
    With(parse(<<owner, gen, num + 1>>, line, num + 1, index_server),
    LAMBDA parsed :
    With(fetch(parsed.value, catalog), LAMBDA new :
        IF line = <<>> THEN skip
        ELSE IF Contains(IgnoreFileMarker, line) /\ num \in {0, 1}
        THEN [_requirements |-> reqs, _other_files |-> others, _is_valid |-> "False"]
        ELSE IF StartsWith(line, <<"#">>) THEN skip
        ELSE IF StartsWithAny(line, IndexFlags)
        THEN ParseLoop(path, owner, gen, catalog, lines, num + 1,
                       parse_index_server(line), reqs, others)
        ELSE IF StartsWithAny(line, RequirementFlags)
        THEN ParseLoop(path, owner, gen, catalog, lines, num + 1, index_server,
                       reqs, Append(others, resolve_file(path, line)))
        ELSE IF StartsWithAny(line, SkippedFlags) THEN skip
        ELSE IF Contains(IgnoreMarker, line) THEN skip
        ELSE IF parsed = Raised("ValueError") THEN skip
        ELSE IF new._package = NoneObj THEN skip
        ELSE ParseLoop(path, owner, gen, catalog, lines, num + 1, index_server,
                       Append(reqs, new), others)))))

\* RequirementFile._parse: fills the three fields anew.  owner is the
\* position of the file in the bundle.
_parse(f, owner, catalog) ==
    With(ParseLoop(f.path, owner, f._parse_calls + 1, catalog, iter_lines(f), 0,
                   None, <<>>, <<>>),
    LAMBDA done :
        [f EXCEPT !._requirements = done._requirements,
                  !._other_files  = done._other_files,
                  !._is_valid     = done._is_valid,
                  !._parse_calls  = @ + 1])

\* Each property yields [file |-> the file after the read, out |-> value].

\* RequirementFile.is_valid
is_valid(f, owner, catalog) ==
    With(IF f._is_valid = "None" THEN _parse(f, owner, catalog) ELSE f, LAMBDA g :
        [file |-> g, out |-> g._is_valid])

\* RequirementFile.requirements: "if not self._requirements" is true of None
\* and of the empty list
requirements(f, owner, catalog) ==
    With(IF f._requirements = NoneReqs \/ f._requirements = <<>>
         THEN _parse(f, owner, catalog)
         ELSE f,
    LAMBDA g :
        [file |-> g, out |-> g._requirements])

\* RequirementFile.other_files
other_files(f, owner, catalog) ==
    With(IF f._other_files = NoneFiles \/ f._other_files = <<>>
         THEN _parse(f, owner, catalog)
         ELSE f,
    LAMBDA g :
        [file |-> g, out |-> g._other_files])

(***************************************************************************)
(* RequirementsBundle                                                      *)
(***************************************************************************)

\* RequirementsBundle.has_file_in_path(path)
has_file_in_path(b, path) == \E i \in 1..Len(b) : b[i].path = path

\* RequirementsBundle.requirements, drained: the files after the read of
\* each one's requirements, and the requirements in file order.
RECURSIVE bundle_requirements(_, _, _)
bundle_requirements(b, catalog, i) ==
    IF i > Len(b) THEN [bundle |-> b, out |-> <<>>]
    ELSE With(requirements(b[i], i, catalog), LAMBDA here :
         With(bundle_requirements([b EXCEPT ![i] = here.file], catalog, i + 1),
         LAMBDA rest :
             [bundle |-> rest.bundle, out |-> here.out \o rest.out]))

\* sorted(prs, key=lambda r: r.created_at): stable
RECURSIVE InsertByCreatedAt(_, _)
InsertByCreatedAt(pr, sorted) ==
    IF sorted = <<>> THEN <<pr>>
    ELSE IF sorted[Len(sorted)].created_at <= pr.created_at
    THEN Append(sorted, pr)
    ELSE Append(InsertByCreatedAt(pr, SubSeq(sorted, 1, Len(sorted) - 1)),
                sorted[Len(sorted)])

RECURSIVE SortedByCreatedAt(_)
SortedByCreatedAt(prs) ==
    IF prs = <<>> THEN <<>>
    ELSE InsertByCreatedAt(prs[Len(prs)],
                           SortedByCreatedAt(SubSeq(prs, 1, Len(prs) - 1)))

\* "if pr not in returned: returned.append(pr)" over the sorted list
RECURSIVE Deduplicated(_, _)
Deduplicated(prs, returned) ==
    IF prs = <<>> THEN returned
    ELSE IF \E k \in 1..Len(returned) : returned[k] = prs[1]
    THEN Deduplicated(Tail(prs), returned)
    ELSE Deduplicated(Tail(prs), Append(returned, prs[1]))

\* The pull requests of the requirements that have one
Attached(reqs) ==
    With(SelectSeq(reqs, LAMBDA r : r.pull_request # NoneObj), LAMBDA with :
        [k \in 1..Len(with) |-> with[k].pull_request])

\* pull_requests without the "not in returned" test
pull_requests_with_repeats(b, catalog) ==
    With(bundle_requirements(b, catalog, 1), LAMBDA all :
        [bundle |-> all.bundle, out |-> SortedByCreatedAt(Attached(all.out))])

\* RequirementsBundle.pull_requests(), drained
pull_requests(b, catalog) ==
    With(bundle_requirements(b, catalog, 1), LAMBDA all :
        [bundle |-> all.bundle,
         out    |-> Deduplicated(SortedByCreatedAt(Attached(all.out)), <<>>)])

(***************************************************************************)
(* SpecResolve: get_latest_version_within_specs on every spec list,        *)
(* candidate list and prereleases flag within the bounds.                  *)
(***************************************************************************)

\* Longest spec list
MaxSpecs == 2

\* Longest candidate version list
MaxCands == 3

SeqsUpTo(S, n) == UNION {[1..k -> S] : k \in 0..n}

\* Candidate versions: 1, 1.0, 1.1, 2b  (1 and 1.0 are equal versions)
CandidateVersions ==
    {<<"1">>, <<"1", ".", "0">>, <<"1", ".", "1">>, <<"2", "b">>}

\* Specs: ==1.0  !=1.1  <2  <=2b  >1  >=1.1  ~=1.0
SpecPool ==
    {<<OpEq, <<"1", ".", "0">>>>, <<OpNe, <<"1", ".", "1">>>>,
     <<OpLt, <<"2">>>>, <<OpLe, <<"2", "b">>>>, <<OpGt, <<"1">>>>,
     <<OpGe, <<"1", ".", "1">>>>, <<OpCompat, <<"1", ".", "0">>>>}

InitResolve ==
    /\ input \in [specs       : SeqsUpTo(SpecPool, MaxSpecs),
                   versions    : SeqsUpTo(CandidateVersions, MaxCands),
                   prereleases : {"None", "True", "False"}]
    /\ bundle = Unused
    /\ req = Unused
    /\ package = Unused
    /\ call = [op |-> "init"]
    /\ result = Unused

Resolve ==
    /\ call.op = "init"
    /\ call' = [op |-> "get_latest_version_within_specs"]
    /\ result' = Return(get_latest_version_within_specs(
                            input.specs, input.versions, input.prereleases))
    /\ UNCHANGED <<bundle, req, package, input>>

NextResolve == Resolve

SpecResolve == InitResolve /\ [][NextResolve]_vars

(***************************************************************************)
(* C6                                                                      *)
(***************************************************************************)

\* Version precedence as a number: release first, a pre-release just below
\* its release.
Precedence(ver) ==
    LET v == ParseVersion(ver)
    IN  100 * v.release[1] + 2 * v.release[2] + (IF v.is_prerelease THEN 0 ELSE 1)

\* The candidate meets one (operator, version) pair by precedence alone.
MeetsByPrecedence(candidate, spec) ==
    LET c == Precedence(candidate)
        v == Precedence(spec[2])
    IN  CASE spec[1] = OpEq     -> c = v
          [] spec[1] = OpNe     -> c # v
          [] spec[1] = OpLt     -> c < v
          [] spec[1] = OpLe     -> c <= v
          [] spec[1] = OpGt     -> c > v
          [] spec[1] = OpGe     -> c >= v
          [] spec[1] = OpCompat -> c >= v /\ c \div 100 = v \div 100

IsPrerelease(ver) == Precedence(ver) % 2 = 0

\* PEP 440 matching of one pair: as by precedence, except that <V does not
\* match a pre-release of V itself.
MeetsPEP440(candidate, spec) ==
    /\ MeetsByPrecedence(candidate, spec)
    /\ ~(/\ spec[1] = OpLt
          /\ ~IsPrerelease(spec[2])
          /\ IsPrerelease(candidate)
          /\ Precedence(candidate) + 1 = Precedence(spec[2]))

\* Whether pre-release candidates are admitted: the flag when it is given,
\* otherwise whether a ==, <=, >= or ~= spec names a pre-release.
AdmitsPrereleases(specs, flag) ==
    IF flag = "None"
    THEN \E i \in 1..Len(specs) :
            /\ specs[i][1] \in {OpEq, OpLe, OpGe, OpCompat}
            /\ IsPrerelease(specs[i][2])
    ELSE flag = "True"

\* The candidates (positions in the list) the claim as stated counts as
\* satisfying.
SatisfyingByPrecedence ==
    {i \in 1..Len(input.versions) :
        \A k \in 1..Len(input.specs) :
            MeetsByPrecedence(input.versions[i], input.specs[k])}

\* The candidates the spec set contains under PEP 440 with the flag.
SatisfyingPEP440 ==
    {i \in 1..Len(input.versions) :
        /\ IsPrerelease(input.versions[i])
              => AdmitsPrereleases(input.specs, input.prereleases)
        /\ \A k \in 1..Len(input.specs) :
              MeetsPEP440(input.versions[i], input.specs[k])}

\* result is a best candidate of the positions in sat, none when sat is empty
IsBestOf(sat) ==
    IF sat = {}
    THEN result = Return(None)
    ELSE /\ \E i \in sat : result = Return(input.versions[i])
         /\ \A i \in sat : Precedence(input.versions[i]) <= Precedence(result.value)

Resolved == call.op = "get_latest_version_within_specs"

\* C6 as stated: the result satisfies every spec by version precedence, no
\* satisfying candidate exceeds it, and it is none exactly when no candidate
\* satisfies all specs.
C6_AsStated == Resolved => IsBestOf(SatisfyingByPrecedence)

\* C6 amended: the same with "satisfies" read as PEP 440 matching under the
\* prereleases flag: <V does not match a pre-release of V, and a pre-release
\* candidate counts only when pre-releases are admitted.
C6_BestWithinSpecs == Resolved => IsBestOf(SatisfyingPEP440)

\* A resolution that picks the best of several satisfying candidates, with a
\* pre-release candidate left out and a duplicate in the list.
C6_Witness ==
    /\ Resolved
    /\ Cardinality(SatisfyingPEP440) >= 2
    /\ Len(input.specs) = 2
    /\ \E i \in 1..Len(input.versions) :
            IsPrerelease(input.versions[i]) /\ i \notin SatisfyingPEP440
    /\ \E i, j \in SatisfyingPEP440 :
            Precedence(input.versions[i]) < Precedence(input.versions[j])
    /\ result # Return(input.versions[1])

(***************************************************************************)
(* SpecReq: one Requirement, parsed from a line, against a catalog entry;  *)
(* its properties are read in any order.                                   *)
(***************************************************************************)

\* Longest version list of a catalog entry
MaxVersions == 2

\* Longest specs list a Requirement is let grow to
MaxSpecsLen == 3

\* p==1
LinePinned == <<"p", "=", "=", "1">>

\* p
LineLoose == <<"p">>

\* p # pyup: <2
LineLooseFilter == <<"p", " ", "#", " ", "p", "y", "u", "p", ":", " ", "<", "2">>

\* p # pyup: ==1
LineLoosePinFilter ==
    <<"p", " ", "#", " ", "p", "y", "u", "p", ":", " ", "=", "=", "1">>

\* p>=1 # pyup: <2
LineRangedFilter ==
    <<"p", ">", "=", "1", " ", "#", " ", "p", "y", "u", "p", ":", " ", "<", "2">>

\* p>=1,<2
LineRanged == <<"p", ">", "=", "1", ",", "<", "2">>

\* p==2b
LinePinnedPre == <<"p", "=", "=", "2", "b">>

\* p==1 # rq.filter: <2
LinePinnedLegacyFilter ==
    <<"p", "=", "=", "1", " ", "#", " ", "r", "q", ".", "f", "i", "l", "t", "e",
      "r", ":", " ", "<", "2">>

ReqLines ==
    {LinePinned, LineLoose, LineLooseFilter, LineLoosePinFilter, LineRangedFilter,
     LineRanged, LinePinnedPre, LinePinnedLegacyFilter}

\* Versions a catalog entry may list: 1, 1.1, 2b, 2
PackageVersions == {<<"1">>, <<"1", ".", "1">>, <<"2", "b">>, <<"2">>}

\* The identity of the Requirement under test
TheReq == <<"req">>

InitReq ==
    /\ \E line \in ReqLines : req = parse(TheReq, line, 1, None).value
    /\ package \in [versions : SeqsUpTo(PackageVersions, MaxVersions)]
    /\ bundle = Unused
    /\ input = Unused
    /\ call = [op |-> "init"]
    /\ result = Unused

\* Reads of the properties that leave the object as it is

ReadIsPinned ==
    /\ call' = [op |-> "is_pinned"]
    /\ result' = Return(is_pinned(req))
    /\ UNCHANGED <<bundle, req, package, input>>

ReadIsRanged ==
    /\ call' = [op |-> "is_ranged"]
    /\ result' = Return(is_ranged(req))
    /\ UNCHANGED <<bundle, req, package, input>>

ReadIsLoose ==
    /\ call' = [op |-> "is_loose"]
    /\ result' = Return(is_loose(req))
    /\ UNCHANGED <<bundle, req, package, input>>

ReadFilter ==
    /\ call' = [op |-> "filter"]
    /\ result' = Return(filter(req))
    /\ UNCHANGED <<bundle, req, package, input>>

ReadPrereleases ==
    /\ call' = [op |-> "prereleases"]
    /\ result' = Return(prereleases(req))
    /\ UNCHANGED <<bundle, req, package, input>>

\* Reads of the properties that may write to the object or raise.  A read is
\* left out once it would grow specs past MaxSpecsLen.
WithinBounds(outcome) == Len(outcome.req.specs) <= MaxSpecsLen

ReadPackage ==
    /\ req' = fetch(req, package)
    /\ call' = [op |-> "package"]
    /\ result' = Return(fetch(req, package)._package)
    /\ UNCHANGED <<bundle, package, input>>

ReadVersion ==
    /\ WithinBounds(version(req, package))
    /\ req' = version(req, package).req
    /\ call' = [op |-> "version"]
    /\ result' = version(req, package).out
    /\ UNCHANGED <<bundle, package, input>>

ReadLatestVersion ==
    /\ req' = latest_version(req, package).req
    /\ call' = [op |-> "latest_version"]
    /\ result' = latest_version(req, package).out
    /\ UNCHANGED <<bundle, package, input>>

ReadLatestVersionWithinSpecs ==
    /\ req' = latest_version_within_specs(req, package).req
    /\ call' = [op |-> "latest_version_within_specs"]
    /\ result' = latest_version_within_specs(req, package).out
    /\ UNCHANGED <<bundle, package, input>>

ReadIsOutdated ==
    /\ WithinBounds(is_outdated(req, package))
    /\ req' = is_outdated(req, package).req
    /\ call' = [op |-> "is_outdated"]
    /\ result' = is_outdated(req, package).out
    /\ UNCHANGED <<bundle, package, input>>

ReadNeedsUpdate ==
    /\ WithinBounds(needs_update(req, package))
    /\ req' = needs_update(req, package).req
    /\ call' = [op |-> "needs_update"]
    /\ result' = needs_update(req, package).out
    /\ UNCHANGED <<bundle, package, input>>

NextReq ==
    \/ ReadIsPinned
    \/ ReadIsRanged
    \/ ReadIsLoose
    \/ ReadFilter
    \/ ReadPrereleases
    \/ ReadPackage
    \/ ReadVersion
    \/ ReadLatestVersion
    \/ ReadLatestVersionWithinSpecs
    \/ ReadIsOutdated
    \/ ReadNeedsUpdate

SpecReq == InitReq /\ [][NextReq]_vars

\* The Requirement as it was constructed from its line
Constructed == parse(req.id, req.line, req.lineno, req.index_server).value

(***************************************************************************)
(* C4                                                                      *)
(***************************************************************************)

\* The catalog entry lists no version, or version or
\* latest_version_within_specs of the Requirement as constructed is none.
ResolvesToNone ==
    \/ package.versions = <<>>
    \/ version(Constructed, package).out.value = None
    \/ latest_version_within_specs(Constructed, package).out.value = None

\* C4: for a pinned or ranged Requirement whose version or
\* latest_version_within_specs resolves to none, is_outdated and needs_update
\* return false: they raise nothing and do not report it outdated.
C4_AsStated ==
    (/\ call.op \in {"is_outdated", "needs_update"}
     /\ is_pinned(Constructed) \/ is_ranged(Constructed)
     /\ ResolvesToNone)
        => result = Return(FALSE)

(***************************************************************************)
(* C5                                                                      *)
(***************************************************************************)

\* C5: specs is, after any sequence of property reads, what it was at
\* construction.
C5_AsStated == req.specs = Constructed.specs

(***************************************************************************)
(* C8                                                                      *)
(***************************************************************************)

\* C8: a Requirement parsed from a line with no version constraint is loose,
\* not pinned and not ranged, and needs_update is true, after any sequence of
\* reads and for every catalog content.
C8_AsStated ==
    is_loose(Constructed) =>
        /\ is_loose(req)
        /\ ~is_pinned(req)
        /\ ~is_ranged(req)
        /\ call.op = "needs_update" => result = Return(TRUE)

(***************************************************************************)
(* SpecUpdate: update_content of a pinned Requirement with a trailing      *)
(* comment, on file texts that hold its line, lines that only contain it,  *)
(* and other lines, with \n or \r\n line ends.                             *)
(***************************************************************************)

\* Most physical lines of a file text
MaxContentLines == 3

\* p==1 # c
LineOneSpace == <<"p", "=", "=", "1", " ", "#", " ", "c">>

\* p==1  # c     (two spaces before the #)
LineTwoSpaces == <<"p", "=", "=", "1", " ", " ", "#", " ", "c">>

\* p==1<TAB># c
LineTab == <<"p", "=", "=", "1", "\t", "#", " ", "c">>

\* p==1 # pyup: <2
LinePinnedFilter ==
    <<"p", "=", "=", "1", " ", "#", " ", "p", "y", "u", "p", ":", " ", "<", "2">>

UpdateLines == {LineOneSpace, LineTwoSpaces, LineTab, LinePinnedFilter}

\* The physical lines of a file that holds line: the line itself, the line
\* as a suffix, as a prefix and inside a longer line, and an unrelated line
\* (q==1).
PhysicalLines(line) ==
    {line, <<"x">> \o line, line \o <<"x">>, <<"x">> \o line \o <<"x">>,
     <<"q", "=", "=", "1">>}

\* The file text: the lines, each but the last followed by eol, the last one
\* too when final.
RECURSIVE Text(_, _, _)
Text(lines, eol, final) ==
    IF lines = <<>> THEN <<>>
    ELSE IF Len(lines) = 1 THEN lines[1] \o (IF final THEN eol ELSE <<>>)
    ELSE lines[1] \o eol \o Text(Tail(lines), eol, final)

InitUpdate ==
    /\ \E line \in UpdateLines :
          /\ req = parse(TheReq, line, 1, None).value
          /\ input \in [lines : SeqsUpTo(PhysicalLines(line), MaxContentLines) \ {<<>>},
                        eol   : {<<"\n">>, <<"\r", "\n">>},
                        final : BOOLEAN]
    /\ package \in {[versions |-> <<<<"1">>, <<"1", ".", "1">>>>],
                    [versions |-> <<<<"2">>, <<"1">>>>]}
    /\ bundle = Unused
    /\ call = [op |-> "init"]
    /\ result = Unused

UpdateContent ==
    /\ call.op = "init"
    /\ req' = update_content(req, package,
                             Text(input.lines, input.eol, input.final)).req
    /\ call' = [op |-> "update_content"]
    /\ result' = update_content(req, package,
                                Text(input.lines, input.eol, input.final)).out
    /\ UNCHANGED <<bundle, package, input>>

NextUpdate == UpdateContent

SpecUpdate == InitUpdate /\ [][NextUpdate]_vars

(***************************************************************************)
(* C3                                                                      *)
(***************************************************************************)

\* The line's text from the whitespace before the # to its end
CommentTail(line) ==
    From(line, 1 + PrefixLen(line, NameChars \cup {"=", "<", ">", "!", "~", ","}))

\* What the claim says the Requirement's line becomes
LineAsClaimed ==
    req.name \o <<"=", "=">>
        \o latest_version_within_specs(req, package).out.value
        \o CommentTail(req.line)

\* C3: every physical line that is exactly the Requirement's line reads
\* <name>==<latest_version_within_specs> followed by the original text from
\* the whitespace before the # on, unchanged; every other line, and every
\* line end, is as in the input.
C3_AsStated ==
    call.op = "update_content" =>
        result = Return(Text([i \in 1..Len(input.lines) |->
                                IF input.lines[i] = req.line
                                THEN LineAsClaimed
                                ELSE input.lines[i]],
                             input.eol, input.final))

(***************************************************************************)
(* SpecFile and SpecBundle: the files of a bundle are read in any order    *)
(* (is_valid, requirements, other_files), the orchestration layer writes   *)
(* pull_request on requirements it got from a file, and pull_requests() is *)
(* drained.  SpecFile has one file over many contents, SpecBundle two      *)
(* files over a few.                                                       *)
(***************************************************************************)

\* Most physical lines of a file of SpecFile
MaxLines == 3

\* Most runs of _parse on one file
MaxParses == 2

\* # pyup: ignore file
LineIgnoreFile ==
    <<"#", " ", "p", "y", "u", "p", ":", " ", "i", "g", "n", "o", "r", "e", " ",
      "f", "i", "l", "e">>

\* -r b
LineInclude == <<"-", "r", " ", "b">>

\* -i u
LineIndex == <<"-", "i", " ", "u">>

\* -i  v/     (two spaces after the flag)
LineIndexTwoSpaces == <<"-", "i", " ", " ", "v", "/">>

\* # c
LineComment == <<"#", " ", "c">>

\* Lines of a file of SpecFile: p==1, p, the five above and the blank line
FileLines ==
    {LinePinned, LineLoose, LineIgnoreFile, LineInclude, LineIndex,
     LineIndexTwoSpaces, LineComment, <<>>}

\* Contents of a file of SpecBundle: "p==1\np", "p==1" and "# c"
BundleContents ==
    {Join(<<"\n">>, <<LinePinned, LineLoose>>), LinePinned, LineComment}

\* Paths of the files of a bundle: a/r and s
Paths == <<<<"a", "/", "r">>, <<"s">>>>

\* A catalog entry
SomePackage == [versions |-> <<<<"1">>>>]

\* The pull requests the orchestration layer may attach: two of them were
\* created at the same time, and the first one created last.
PullRequestPool ==
    {[id |-> 1, created_at |-> 2], [id |-> 2, created_at |-> 1],
     [id |-> 3, created_at |-> 1]}

InitFile ==
    /\ \E lines \in SeqsUpTo(FileLines, MaxLines) :
          bundle = <<RequirementFile(Paths[1], Join(<<"\n">>, lines))>>
    /\ package \in {SomePackage, NoneObj}
    /\ req = Unused
    /\ input = Unused
    /\ call = [op |-> "init"]
    /\ result = Unused

InitBundle ==
    /\ \E contents \in [1..Len(Paths) -> BundleContents] :
          bundle = [i \in 1..Len(Paths) |-> RequirementFile(Paths[i], contents[i])]
    /\ package = SomePackage
    /\ req = Unused
    /\ input = Unused
    /\ call = [op |-> "init"]
    /\ result = Unused

\* A read is left out once it would run _parse more than MaxParses times.
ParsesWithinBounds(b) == \A i \in 1..Len(b) : b[i]._parse_calls <= MaxParses

ReadIsValid(i) ==
    /\ ParsesWithinBounds(<<is_valid(bundle[i], i, package).file>>)
    /\ bundle' = [bundle EXCEPT ![i] = is_valid(bundle[i], i, package).file]
    /\ call' = [op |-> "is_valid", file |-> i]
    /\ result' = Return(is_valid(bundle[i], i, package).out)
    /\ UNCHANGED <<req, package, input>>

ReadRequirements(i) ==
    /\ ParsesWithinBounds(<<requirements(bundle[i], i, package).file>>)
    /\ bundle' = [bundle EXCEPT ![i] = requirements(bundle[i], i, package).file]
    /\ call' = [op |-> "requirements", file |-> i]
    /\ result' = Return(requirements(bundle[i], i, package).out)
    /\ UNCHANGED <<req, package, input>>

ReadOtherFiles(i) ==
    /\ ParsesWithinBounds(<<other_files(bundle[i], i, package).file>>)
    /\ bundle' = [bundle EXCEPT ![i] = other_files(bundle[i], i, package).file]
    /\ call' = [op |-> "other_files", file |-> i]
    /\ result' = Return(other_files(bundle[i], i, package).out)
    /\ UNCHANGED <<req, package, input>>

\* The orchestration layer sets pull_request on the k-th Requirement it got
\* from file i's requirements.
SetPullRequest(i, k, pr) ==
    /\ bundle[i]._requirements # NoneReqs
    /\ k \in 1..Len(bundle[i]._requirements)
    /\ bundle' = [bundle EXCEPT ![i]._requirements[k].pull_request = pr]
    /\ call' = [op |-> "set_pull_request", file |-> i]
    /\ result' = Return(NoneObj)
    /\ UNCHANGED <<req, package, input>>

PullRequests ==
    /\ ParsesWithinBounds(pull_requests(bundle, package).bundle)
    /\ bundle' = pull_requests(bundle, package).bundle
    /\ call' = [op |-> "pull_requests"]
    /\ result' = Return(pull_requests(bundle, package).out)
    /\ UNCHANGED <<req, package, input>>

HasFileInPath(path) ==
    /\ call' = [op |-> "has_file_in_path", path |-> path]
    /\ result' = Return(has_file_in_path(bundle, path))
    /\ UNCHANGED <<bundle, req, package, input>>

NextBundle ==
    \/ \E i \in 1..Len(bundle) : ReadIsValid(i)
    \/ \E i \in 1..Len(bundle) : ReadRequirements(i)
    \/ \E i \in 1..Len(bundle) : ReadOtherFiles(i)
    \/ \E i \in 1..Len(bundle), k \in 1..MaxLines, pr \in PullRequestPool :
          SetPullRequest(i, k, pr)
    \/ PullRequests
    \/ \E i \in 1..Len(Paths) : HasFileInPath(Paths[i])

SpecFile == InitFile /\ [][NextBundle]_vars

SpecBundle == InitBundle /\ [][NextBundle]_vars

(***************************************************************************)
(* Claims on SpecFile and SpecBundle                                       *)
(***************************************************************************)

ReadOps == {"is_valid", "requirements", "other_files"}

\* The physical lines of file i
PhysicalLinesOf(i) == SplitLines(bundle[i].content)

\* The first or the second physical line of file i holds the ignore-file
\* marker
IgnoreFileOnFirstTwo(i) ==
    \E n \in {1, 2} :
        /\ n <= Len(PhysicalLinesOf(i))
        /\ Contains(IgnoreFileMarker, PhysicalLinesOf(i)[n])

\* C1, as stated: a read of a file whose first or second physical line holds
\* "pyup: ignore file" gives is_valid false, no requirements and no other
\* files, whatever else the file holds and whichever property is read.
\* The code does not do this when a requirement or a -r line comes before
\* the marker.
C1_AsStated ==
    (call.op \in ReadOps /\ IgnoreFileOnFirstTwo(call.file)) =>
        /\ call.op = "is_valid" => result.value = "False"
        /\ call.op = "requirements" => result.value = <<>>
        /\ call.op = "other_files" => result.value = <<>>

\* Whitespace-delimited tokens of s
RECURSIVE TokenLen(_)
TokenLen(s) ==
    IF s = <<>> \/ s[1] \in Whitespace THEN 0 ELSE 1 + TokenLen(Tail(s))

RECURSIVE Tokens(_)
Tokens(s) ==
    LET t == LStrip(s)
    IN  IF t = <<>> THEN <<>>
        ELSE <<SubSeq(t, 1, TokenLen(t))>>
                 \o Tokens(SubSeq(t, TokenLen(t) + 1, Len(t)))

IsIndexDirective(line) == StartsWithAny(Strip(line), IndexFlags)

\* The URL of an index directive line: the first whitespace-delimited token
\* after the flag, the comment left out, ended with a slash
DirectiveURL(line) ==
    LET toks == Tokens(Split(line, <<"#">>)[1])
    IN  IF Len(toks) < 2 THEN None
        ELSE IF EndsWith(toks[2], <<"/">>) THEN toks[2]
        ELSE toks[2] \o <<"/">>

\* The URL of the nearest index directive before line lineno (1-based), or
\* None
NearestIndexServer(lines, lineno) ==
    LET before == {n \in 1..(lineno - 1) : IsIndexDirective(lines[n])}
    IN  IF before = {} THEN None
        ELSE DirectiveURL(lines[CHOOSE n \in before : \A m \in before : m <= n])

\* C7, as stated: each Requirement of a file has the URL of the nearest index
\* directive before it in that file as index_server, None when there is
\* none; no Requirement comes from a directive line, and the other files are
\* no more than the -r lines.  The code does not do this for a directive
\* with two spaces after the flag.
C7_AsStated ==
    \A i \in 1..Len(bundle) :
        /\ bundle[i]._requirements # NoneReqs =>
              \A k \in 1..Len(bundle[i]._requirements) :
                  LET r == bundle[i]._requirements[k]
                  IN  /\ r.index_server = NearestIndexServer(PhysicalLinesOf(i), r.lineno)
                      /\ ~IsIndexDirective(PhysicalLinesOf(i)[r.lineno])
        /\ bundle[i]._other_files # NoneFiles =>
              Len(bundle[i]._other_files)
                  <= Cardinality({n \in 1..Len(PhysicalLinesOf(i)) :
                                     StartsWithAny(Strip(PhysicalLinesOf(i)[n]),
                                                   RequirementFlags)})

\* C2, as stated: _parse runs once, on the first read of a file, and never
\* again.  The code runs it again when a list it filled is empty.
C2_AsStated ==
    /\ \A i \in 1..Len(bundle) : bundle[i]._parse_calls <= 1
    /\ call.op \in ReadOps => bundle[call.file]._parse_calls = 1

\* C10, as stated: a Requirement of a file that has its pull_request set is
\* still the file's Requirement, with a pull_request, after every step, so
\* that each later read of requirements returns it.  The code drops it when
\* a read runs _parse again.
C10_AsStated ==
    [][\A i \in 1..Len(bundle) :
          bundle[i]._requirements # NoneReqs =>
              \A k \in 1..Len(bundle[i]._requirements) :
                  bundle[i]._requirements[k].pull_request # NoneObj =>
                      \E j \in 1..Len(bundle'[i]._requirements) :
                          /\ bundle'[i]._requirements[j].id
                                 = bundle[i]._requirements[k].id
                          /\ bundle'[i]._requirements[j].pull_request # NoneObj]_vars

\* The requirements of every file of the bundle
AllRequirements ==
    UNION {IF bundle[i]._requirements = NoneReqs THEN {}
           ELSE {bundle[i]._requirements[k] :
                    k \in 1..Len(bundle[i]._requirements)} :
           i \in 1..Len(bundle)}

AttachedPullRequests ==
    {r.pull_request : r \in {q \in AllRequirements : q.pull_request # NoneObj}}

\* C9: what pull_requests() yields is in ascending created_at order, holds
\* no pull request twice, and holds just the pull requests that some
\* requirement of some file of the bundle has.
C9_PullRequests ==
    call.op = "pull_requests" =>
        LET out == result.value
        IN  /\ \A j, k \in 1..Len(out) :
                  j < k => /\ out[j].created_at <= out[k].created_at
                           /\ out[j] # out[k]
            /\ {out[k] : k \in 1..Len(out)} = AttachedPullRequests

\* C9 happens: pull_requests() has yielded two pull requests or more, one of
\* them attached to requirements of two files, a requirement has none, and
\* the pull request of the first requirement is not yielded first.
C9_Witness ==
    /\ call.op = "pull_requests"
    /\ Len(result.value) >= 2
    /\ \E r, s \in AllRequirements :
          /\ r.id[1] # s.id[1]
          /\ r.pull_request # NoneObj
          /\ r.pull_request = s.pull_request
    /\ \E r \in AllRequirements : r.pull_request = NoneObj
    /\ bundle[1]._requirements[1].pull_request # NoneObj
    /\ bundle[1]._requirements[1].pull_request # result.value[1]

=============================================================================
